---- MODULE Spec2Model ----
(***************************************************************************)
(* The remote Alertmanager facade of pkg/services/ngalert/remote           *)
(* (alertmanager.go) as a state machine.                                   *)
(*                                                                         *)
(* ApplyConfig / checkReadiness is the only operation that spans several   *)
(* steps (a load of am.ready, the probe request, the select loop, the      *)
(* store to am.ready), so each concurrent caller of it has a frame (pc and *)
(* the locals of checkReadiness).  Every other operation is one            *)
(* synchronous call that neither reads nor writes am.ready; it is one step *)
(* and leaves what it returned in lastRet.                                 *)
(*                                                                         *)
(* Time is counted in milliseconds.  A timer never fires early; TimePasses *)
(* is the exact passage of one ticker period, TimerStall a stall of the    *)
(* runtime during which the timers of every waiting caller expire.         *)
(***************************************************************************)
EXTENDS Integers, FiniteSets, Sequences, TLC

\* ------------------------------------------------------------- bounds
NumCallers == 2
MaxTargets == 1
MaxCfg == 1
NumServers == 2
MaxOrgs == 2

\* -------------------------------------------------- program constants
TickInterval == 100
senderStartTimeout == 10000
StatusOK == 200
StatusCreated == 201
StatusNotFound == 404

Callers == 1..NumCallers
Cfgs == 1..MaxCfg
NoCfg == 0 - 1

\* What httpClient.Do can hand back: a transport error or a response code.
Response(err, code) == [err |-> err, code |-> code]
Responses ==
    {Response("neterr", 0)} \cup
    {Response("nil", s) : s \in {StatusOK, StatusCreated, StatusNotFound}}
Canceled == Response("canceled", 0)

\* What the generated client binding can do in one call.
BindingOutcomes == {"ok", "err", "panic"}

\* -------------------------------------------------- URLs and the config
\* A URL or a path is a sequence of pieces; a piece that is a path segment
\* carries its leading slash ("/" alone: a trailing slash).
readyEndpoint == <<"/-/ready">>
defaultConfigEndpoint == <<"/api/v1/alerts">>
DefaultBasePath == <<"/api/v2">>
AlertmanagerSuffix == <<"/alertmanager">>

\* A plausible slip: the suffix is left in place.
TrimSuffixKept(s, suf) == s

\* strings.TrimSuffix: s without the suffix suf when s ends with it, else s.
TrimSuffix(s, suf) ==
    IF /\ Len(s) >= Len(suf)
       /\ SubSeq(s, Len(s) - Len(suf) + 1, Len(s)) = suf
    THEN SubSeq(s, 1, Len(s) - Len(suf))
    ELSE s

\* The base URLs a caller may configure: empty, one url.Parse rejects
\* (":" has no scheme), and URLs with no, one, two and a slash-terminated
\* "/alertmanager" suffix.
URLs == {<<>>, <<":">>, <<"http://am">>, <<"http://am", "/alertmanager">>,
         <<"http://am", "/alertmanager", "/alertmanager">>,
         <<"http://am", "/alertmanager", "/">>}
TenantIDs == {"", "t1"}
Passwords == {"", "p1"}
ConfigEndpoints == {<<>>, <<"/custom">>}

\* AlertmanagerConfig, lines 53-58.
AlertmanagerConfig(u, t, p, e) ==
    [URL |-> u, TenantID |-> t, BasicAuthPassword |-> p, ConfigEndpoint |-> e]
Configs ==
    {AlertmanagerConfig(u, t, p, e) :
        u \in URLs, t \in TenantIDs, p \in Passwords, e \in ConfigEndpoints}

\* The config of the gateway the readiness and lifecycle specifications run.
TypicalConfig ==
    AlertmanagerConfig(<<"http://am", "/alertmanager">>, "t1", "p1", <<>>)

\* What sender.ApplyConfig can return to NewAlertmanager (line 92).
SenderApplyOutcomes == {"nil", "err"}

\* url.Parse (line 77) rejects the URL.
ParseFails(u) == u # <<>> /\ u[1] = ":"

\* Lines 99-109 with 61-71: the fields of the gateway built from cfg (the
\* password lives in the roundTripper of its http client).
Gateway(c) ==
    [url |-> c.URL,
     configEndpoint |-> IF c.ConfigEndpoint = <<>> THEN defaultConfigEndpoint
                        ELSE c.ConfigEndpoint,
     tenantID |-> c.TenantID,
     basicAuthPassword |-> c.BasicAuthPassword]

\* NewAlertmanager returned nil for the gateway.
NoGateway ==
    [url |-> <<>>, configEndpoint |-> <<>>, tenantID |-> "", basicAuthPassword |-> ""]

\* An http.Request as the transport sees it: a header is <<>> when absent.
Request(method, url) == [method |-> method, url |-> url, scope |-> <<>>, auth |-> <<>>]

\* A plausible slip: basic auth is attached whenever a secret is configured.
RoundTripAuthOnSecret(g, req) ==
    <<[req EXCEPT !.scope = <<g.tenantID>>,
                  !.auth = IF g.basicAuthPassword # ""
                           THEN <<g.tenantID, g.basicAuthPassword>>
                           ELSE req.auth]>>

\* Lines 357-364: the requests roundTripper.RoundTrip hands to the next
\* transport, in order: the one it was given, with the scope header set and,
\* when tenant and password are both non-empty, with basic auth.
RoundTrip(g, req) ==
    <<[req EXCEPT !.scope = <<g.tenantID>>,
                  !.auth = IF g.tenantID # "" /\ g.basicAuthPassword # ""
                           THEN <<g.tenantID, g.basicAuthPassword>>
                           ELSE req.auth]>>

\* Line 124: the URL of the readiness probe.
readyURL(g) == TrimSuffix(g.url, <<"/">>) \o readyEndpoint

\* Lines 386 and 419: the URL of the config push and of the config pull.
postConfigURL(g) == TrimSuffix(g.url, AlertmanagerSuffix) \o g.configEndpoint
getConfigURL(g) == TrimSuffix(g.url, AlertmanagerSuffix) \o g.configEndpoint

VARIABLES
    ready,          \* am.ready
    targets,        \* len(am.sender.Alertmanagers())
    senderRunning,  \* the dispatcher started by NewAlertmanager is running
    localCfg,       \* what configStore last persisted (NoCfg: nothing)
    pc,             \* per caller: position in ApplyConfig / checkReadiness
    ctxDone,        \* per caller: the ctx passed to ApplyConfig is cancelled
    res,            \* per caller: res.StatusCode of the probe (0: none)
    n,              \* per caller: target count read at the last tick
    tickDue,        \* per caller: ticker.C holds a tick
    sinceSelect,    \* per caller: ms since time.After was armed by the select
    sent,           \* per caller: the requests this invocation has issued
    lastRet,        \* what the last completed operation returned
    wire,           \* the requests the last completed operation issued
    amCfg,          \* the AlertmanagerConfig passed to NewAlertmanager
    am,             \* the gateway NewAlertmanager returned (NoGateway: nil)
    senderCfg,      \* the URLs the dispatcher was configured with
    queued,         \* the dispatcher's queue holds alerts not yet delivered
    codec,          \* a document on its way through push, echo and pull
    resBody,        \* res.Body of the last completed operation (none, closed, open)
    remoteCfg,      \* the config the remote accepted last (NoCfg: none)
    saving,         \* per caller: its SaveAndApplyConfig between push and persist
    isMigrated,     \* migrationStore: the migrated flag per org (0: anyOrg)
    lock,           \* the server holding the lock "alerting migration" (0: free)
    run,            \* per server: the frame of its migrationService.Run
    ran             \* what the last completed Run returned, and what it did

vars == <<ready, targets, senderRunning, localCfg, pc, ctxDone,
          res, n, tickDue, sinceSelect, sent, lastRet, wire, amCfg, am, senderCfg,
          queued, codec, resBody, remoteCfg, saving, isMigrated, lock, run, ran>>

facade == <<ready, targets, senderRunning, localCfg>>
frames == <<pc, ctxDone, res, n, tickDue, sinceSelect, sent>>
gateway == <<amCfg, am, senderCfg>>
mirror == <<remoteCfg, saving>>
migration == <<isMigrated, lock, run, ran>>

\* NewAlertmanager returned a gateway: its methods can be called.
Built == am # NoGateway

\* No document is being pushed or pulled.
NoCodec == [stage |-> "none"]

\* The caller is not inside SaveAndApplyConfig.
NotSaving == [at |-> "idle"]

\* service.go, line 19.
anyOrg == 0

\* The servers that share the database, and the orgs GetAllOrgs returns.
Servers == 1..NumServers
Orgs == 1..MaxOrgs

\* The server is not inside migrationService.Run; no Run has returned yet.
NoRun == [pc |-> "idle"]
NoRan == [server |-> 0]

\* No config call is under way and the remote has accepted no config.
InitMirror ==
    /\ resBody = "none"
    /\ remoteCfg = NoCfg
    /\ saving = [c \in Callers |-> NotSaving]

\* A fresh database: no flag is set, the lock is free, no server runs.
InitMigration ==
    /\ isMigrated = [o \in {anyOrg} \cup Orgs |-> FALSE]
    /\ lock = 0
    /\ run = [sv \in Servers |-> NoRun]
    /\ ran = NoRan

Ret(op, err, val, fault, status) ==
    [op |-> op, err |-> err, val |-> val, fault |-> fault, status |-> status]

Min(a, b) == IF a < b THEN a ELSE b

Polling(c) == pc[c] = "poll"

\* ---------------------------------------------------------------- Init
\* The state NewAlertmanager leaves when it returns the gateway for conf.
InitBuilt(conf) ==
    /\ ready = FALSE
    /\ targets \in 0..MaxTargets
    /\ senderRunning = TRUE
    /\ localCfg = NoCfg
    /\ ctxDone = [c \in Callers |-> FALSE]
    /\ res = [c \in Callers |-> 0]
    /\ n = [c \in Callers |-> 0]
    /\ tickDue = [c \in Callers |-> FALSE]
    /\ sinceSelect = [c \in Callers |-> 0]
    /\ sent = [c \in Callers |-> <<>>]
    /\ lastRet = Ret("NewAlertmanager", "nil", "gateway", FALSE, 0)
    /\ wire = <<>>
    /\ amCfg = conf
    /\ am = Gateway(conf)
    /\ senderCfg = <<conf.URL>>
    /\ queued = FALSE
    /\ InitMirror
    /\ InitMigration

InitFacade ==
    /\ InitBuilt(TypicalConfig)
    /\ codec = NoCodec

Init ==
    /\ InitFacade
    /\ pc = [c \in Callers |-> "idle"]

\* A single goroutine calls ApplyConfig.
InitSolo ==
    /\ InitFacade
    /\ pc = [c \in Callers |-> IF c = 1 THEN "idle" ELSE "absent"]

\* A single goroutine uses a gateway built with any tenant and password.
InitSoloTenants ==
    /\ \E t \in TenantIDs, p \in Passwords :
         InitBuilt(AlertmanagerConfig(TypicalConfig.URL, t, p, <<>>))
    /\ codec = NoCodec
    /\ pc = [c \in Callers |-> IF c = 1 THEN "idle" ELSE "absent"]

\* Before NewAlertmanager is called: no gateway, no dispatcher.  One
\* goroutine will use the gateway once it is built.
InitNoGateway ==
    /\ ready = FALSE
    /\ targets = 0
    /\ senderRunning = FALSE
    /\ localCfg = NoCfg
    /\ pc = [c \in Callers |-> IF c = 1 THEN "idle" ELSE "absent"]
    /\ ctxDone = [c \in Callers |-> FALSE]
    /\ res = [c \in Callers |-> 0]
    /\ n = [c \in Callers |-> 0]
    /\ tickDue = [c \in Callers |-> FALSE]
    /\ sinceSelect = [c \in Callers |-> 0]
    /\ sent = [c \in Callers |-> <<>>]
    /\ lastRet = Ret("", "nil", "", FALSE, 0)
    /\ wire = <<>>
    /\ amCfg = AlertmanagerConfig(<<>>, "", "", <<>>)
    /\ am = NoGateway
    /\ senderCfg = <<>>
    /\ queued = FALSE
    /\ codec = NoCodec
    /\ InitMirror

InitUnbuilt ==
    /\ InitNoGateway
    /\ InitMigration

\* A plausible slip: the check for an empty URL is missing.
EmptyURLAccepted(u) == FALSE

\* Line 73: cfg.URL == "".
EmptyURL(u) == u = <<>>

\* Lines 60-110.  The constructor fails on an empty URL and on a URL that
\* url.Parse rejects, both before the sender exists; then it creates and
\* runs the sender, and fails when the sender rejects its config, leaving
\* the sender running; else it returns the gateway, whose ready field has
\* the zero value.  It sends nothing itself.
NewAlertmanager ==
    /\ lastRet.op = ""
    /\ \E c \in Configs, o \in SenderApplyOutcomes :
         /\ amCfg' = c
         /\ IF EmptyURL(c.URL)
            THEN /\ lastRet' = Ret("NewAlertmanager", "emptyURL", "nil", FALSE, 0)
                 /\ UNCHANGED <<am, senderRunning, senderCfg>>
            ELSE IF ParseFails(c.URL)
            THEN /\ lastRet' = Ret("NewAlertmanager", "parseError", "nil", FALSE, 0)
                 /\ UNCHANGED <<am, senderRunning, senderCfg>>
            ELSE IF o = "err"
            THEN /\ senderRunning' = TRUE
                 /\ lastRet' = Ret("NewAlertmanager", "senderError", "nil", FALSE, 0)
                 /\ UNCHANGED <<am, senderCfg>>
            ELSE /\ senderRunning' = TRUE
                 /\ senderCfg' = <<c.URL>>
                 /\ am' = Gateway(c)
                 /\ lastRet' = Ret("NewAlertmanager", "nil", "gateway", FALSE, 0)
    /\ ready' = FALSE
    /\ wire' = <<>>
    /\ resBody' = "none"
    /\ UNCHANGED <<targets, localCfg, frames, queued, codec, mirror, migration>>

\* httpClient.Do / the binding's transport, lines 61-67: the request goes
\* through roundTripper.RoundTrip, which hands it to the next transport once.
Do(g, req) == RoundTrip(g, req)

\* Leaving checkReadiness / ApplyConfig with result r, having issued the
\* requests w and leaving the body of the response as b: the frame's locals
\* die.
ReturnHaving(c, r, w, b) ==
    /\ pc' = [pc EXCEPT ![c] = "idle"]
    /\ ctxDone' = [ctxDone EXCEPT ![c] = FALSE]
    /\ res' = [res EXCEPT ![c] = 0]
    /\ n' = [n EXCEPT ![c] = 0]
    /\ tickDue' = [tickDue EXCEPT ![c] = FALSE]
    /\ sinceSelect' = [sinceSelect EXCEPT ![c] = 0]
    /\ sent' = [sent EXCEPT ![c] = <<>>]
    /\ lastRet' = r
    /\ wire' = w
    /\ resBody' = b
    /\ UNCHANGED <<gateway, queued, codec, mirror, migration>>

\* Lines 135-139: the deferred Close runs at every return that follows a
\* response, whatever its status; res is 0 when no response was obtained.
checkReadinessBody(code) == IF code = 0 THEN "none" ELSE "closed"

Return(c, r) == ReturnHaving(c, r, sent[c], checkReadinessBody(res[c]))

\* ------------------------------------------------- ApplyConfig / Ready
CallApplyConfig(c) ==
    /\ Built
    /\ pc[c] = "idle"
    /\ pc' = [pc EXCEPT ![c] = "applyLoad"]
    /\ UNCHANGED <<facade, ctxDone, res, n, tickDue, sinceSelect, sent,
                   lastRet, wire, resBody, gateway, queued, codec, mirror, migration>>

\* The caller cancels the ctx of its running call (the ctx is looked at by
\* the probe request only; the call spends its time in the probe and the loop).
Cancel(c) ==
    /\ pc[c] \in {"probe", "poll"}
    /\ ~ctxDone[c]
    /\ ctxDone' = [ctxDone EXCEPT ![c] = TRUE]
    /\ UNCHANGED <<facade, pc, res, n, tickDue, sinceSelect, sent,
                   lastRet, wire, resBody, gateway, queued, codec, mirror, migration>>

\* A plausible slip: ApplyConfig starts the sender, as its comment says.
ApplyConfigStartsSender(c) ==
    /\ pc[c] = "applyLoad"
    /\ senderRunning' = TRUE
    /\ IF ready
       THEN Return(c, Ret("ApplyConfig", "nil", "noop", FALSE, 0))
       ELSE /\ pc' = [pc EXCEPT ![c] = "probe"]
            /\ UNCHANGED <<ctxDone, res, n, tickDue, sinceSelect, sent,
                           lastRet, wire, resBody, gateway, queued, codec, mirror, migration>>
    /\ UNCHANGED <<ready, targets, localCfg>>

\* A plausible slip: a failed check is remembered, and the next call returns
\* the remembered error without probing again.
ApplyConfigRemembersFailure(c) ==
    /\ pc[c] = "applyLoad"
    /\ IF ready
       THEN Return(c, Ret("ApplyConfig", "nil", "noop", FALSE, 0))
       ELSE IF lastRet.op = "ApplyConfig" /\ lastRet.err # "nil"
       THEN Return(c, lastRet)
       ELSE /\ pc' = [pc EXCEPT ![c] = "probe"]
            /\ UNCHANGED <<ctxDone, res, n, tickDue, sinceSelect, sent,
                           lastRet, wire, resBody, gateway, queued, codec, mirror, migration>>
    /\ UNCHANGED facade

\* A plausible slip: the early return on am.ready is missing.
ApplyConfigAlwaysChecks(c) ==
    /\ pc[c] = "applyLoad"
    /\ pc' = [pc EXCEPT ![c] = "probe"]
    /\ UNCHANGED <<facade, ctxDone, res, n, tickDue, sinceSelect, sent,
                   lastRet, wire, resBody, gateway, queued, codec, mirror, migration>>

\* Lines 115-121: load am.ready; when set return nil, else checkReadiness.
ApplyConfig(c) ==
    /\ pc[c] = "applyLoad"
    /\ IF ready
       THEN Return(c, Ret("ApplyConfig", "nil", "noop", FALSE, 0))
       ELSE /\ pc' = [pc EXCEPT ![c] = "probe"]
            /\ UNCHANGED <<ctxDone, res, n, tickDue, sinceSelect, sent,
                           lastRet, wire, resBody, gateway, queued, codec, mirror, migration>>
    /\ UNCHANGED facade

\* A plausible slip: only the transport error is checked, not the status.
ProbeSucceededAnyStatus(r) == r.err = "nil"

\* checkReadiness, lines 130-143: Do returned no error and the status is 200.
ProbeSucceeded(r) == r.err = "nil" /\ r.code = StatusOK

\* The error checkReadiness returns for a probe that did not succeed.
ProbeError(r) ==
    IF r.err = "canceled" THEN "canceled"
    ELSE IF r.err # "nil" THEN "probeError"
    ELSE "notReadyStatus"

\* A plausible slip: the comparison includes zero.
TargetFoundOrEqual(k) == k >= 0

\* checkReadiness, line 154: len(am.sender.Alertmanagers()) > 0.
TargetFound(k) == k > 0

\* Lines 124-147: the probe request, built with the caller's ctx, then the
\* ticker is created.  A cancelled ctx makes Do fail with the ctx's error.
checkReadinessProbe(c) ==
    /\ pc[c] = "probe"
    /\ \E r \in (IF ctxDone[c] THEN {Canceled} ELSE Responses) :
         IF ProbeSucceeded(r)
         THEN /\ pc' = [pc EXCEPT ![c] = "poll"]
              /\ res' = [res EXCEPT ![c] = r.code]
              /\ tickDue' = [tickDue EXCEPT ![c] = FALSE]
              /\ sinceSelect' = [sinceSelect EXCEPT ![c] = 0]
              /\ sent' = [sent EXCEPT ![c] =
                            sent[c] \o Do(am, Request("GET", readyURL(am)))]
              /\ UNCHANGED <<ctxDone, n, lastRet, wire, resBody, gateway, queued, codec, mirror, migration>>
         ELSE ReturnHaving(c, Ret("ApplyConfig", ProbeError(r), "", FALSE, r.code),
                           sent[c] \o Do(am, Request("GET", readyURL(am))),
                           checkReadinessBody(r.code))
    /\ UNCHANGED facade

\* A plausible slip: the loop probes the remote again at every tick.
checkReadinessTickProbes(c) ==
    /\ pc[c] = "poll"
    /\ tickDue[c]
    /\ tickDue' = [tickDue EXCEPT ![c] = FALSE]
    /\ sinceSelect' = [sinceSelect EXCEPT ![c] = 0]
    /\ n' = [n EXCEPT ![c] = targets]
    /\ sent' = [sent EXCEPT ![c] = sent[c] \o Do(am, Request("GET", readyURL(am)))]
    /\ pc' = [pc EXCEPT ![c] = IF TargetFound(targets) THEN "store" ELSE "poll"]
    /\ UNCHANGED <<facade, ctxDone, res, lastRet, wire, resBody, gateway, queued, codec, mirror, migration>>

\* Lines 150-158, case <-ticker.C: read the dispatcher's targets; with none,
\* go round the loop, where the select evaluates time.After afresh.
checkReadinessTick(c) ==
    /\ pc[c] = "poll"
    /\ tickDue[c]
    /\ tickDue' = [tickDue EXCEPT ![c] = FALSE]
    /\ sinceSelect' = [sinceSelect EXCEPT ![c] = 0]
    /\ n' = [n EXCEPT ![c] = targets]
    /\ pc' = [pc EXCEPT ![c] = IF TargetFound(targets) THEN "store" ELSE "poll"]
    /\ UNCHANGED <<facade, ctxDone, res, sent, lastRet, wire, resBody, gateway, queued, codec, mirror, migration>>

\* Lines 156-157: am.ready = true; return nil.
checkReadinessSetReady(c) ==
    /\ pc[c] = "store"
    /\ ready' = TRUE
    /\ Return(c, Ret("ApplyConfig", "nil", "set", FALSE, res[c]))
    /\ UNCHANGED <<targets, senderRunning, localCfg>>

\* Lines 159-160, case <-time.After(senderStartTimeout).
checkReadinessTimeout(c) ==
    /\ pc[c] = "poll"
    /\ sinceSelect[c] >= senderStartTimeout
    /\ Return(c, Ret("ApplyConfig", "notReady", "", FALSE, res[c]))
    /\ UNCHANGED facade

\* A case of some waiting select is ready.
SelectReady(c) == Polling(c) /\ (tickDue[c] \/ sinceSelect[c] >= senderStartTimeout)

Elapse(d) ==
    /\ tickDue' = [c \in Callers |-> IF Polling(c) THEN TRUE ELSE tickDue[c]]
    /\ sinceSelect' = [c \in Callers |->
          IF Polling(c) THEN Min(sinceSelect[c] + d, senderStartTimeout)
          ELSE sinceSelect[c]]
    /\ UNCHANGED <<facade, pc, ctxDone, res, n, sent, lastRet, wire, resBody, gateway, queued, codec, mirror, migration>>

\* One ticker period passes while every waiting select has nothing ready:
\* each ticker delivers its tick, each armed time.After has run 100 ms more.
TimePasses ==
    /\ \E c \in Callers : Polling(c)
    /\ \A c \in Callers : ~SelectReady(c)
    /\ Elapse(TickInterval)

\* The runtime stalls for senderStartTimeout (timers fire no earlier than
\* their duration, with no upper bound): every waiting timer has expired.
TimerStall ==
    /\ \E c \in Callers : Polling(c) /\ sinceSelect[c] < senderStartTimeout
    /\ Elapse(senderStartTimeout)

\* The discovery loop of the dispatcher, once it has been given its config,
\* changes its target list.
DiscoveryChanges ==
    /\ senderCfg # <<>>
    /\ \E k \in 0..MaxTargets : k # targets /\ targets' = k
    /\ UNCHANGED <<ready, senderRunning, localCfg, frames, lastRet, wire, resBody, gateway, queued, codec, mirror, migration>>

\* Lines 342-344: a plain load of am.ready.
Ready ==
    /\ Built
    /\ lastRet' = Ret("Ready", "nil", IF ready THEN "true" ELSE "false", FALSE, 0)
    /\ wire' = <<>>
    /\ resBody' = "none"
    /\ UNCHANGED <<facade, frames, gateway, queued, codec, mirror, migration>>

\* ------------------------------------------------ silence / alerts relay
\* The request of each call of the binding: the transport of line 83 is
\* rooted at the base URL joined with the binding's base path.
BindingRequest(op) ==
    LET m == CASE op = "CreateSilence" -> "POST"
               [] op = "DeleteSilence" -> "DELETE"
               [] OTHER -> "GET"
        path == CASE op \in {"CreateSilence", "ListSilences"} -> <<"/silences">>
                  [] op \in {"DeleteSilence", "GetSilence"} -> <<"/silence/id">>
                  [] op = "GetAlerts" -> <<"/alerts">>
                  [] op = "GetAlertGroups" -> <<"/alerts/groups">>
                  [] OTHER -> <<"/receivers">>
    IN  Request(m, am.url \o DefaultBasePath \o path)

\* One call of the binding submits one request through the gateway's
\* client; a call that fails or panics may do so before submitting it.
BindingRequests(op, o) ==
    IF o = "ok" THEN {Do(am, BindingRequest(op))}
    ELSE {<<>>, Do(am, BindingRequest(op))}

\* The common shape of lines 199-304: a deferred recover() that only logs,
\* one call of the client binding, unnamed results.  When the binding
\* panics, recover() stops the panic and the function returns the zero
\* values of its results: the zero payload and a nil error.
Recovered(op, o) ==
    /\ Built
    /\ \E w \in BindingRequests(op, o) : wire' = w
    /\ resBody' = "none"
    /\ lastRet' = CASE o = "ok"    -> Ret(op, "nil", "payload", FALSE, 0)
                    [] o = "err"   -> Ret(op, "bindingError", "zero", FALSE, 0)
                    [] o = "panic" -> Ret(op, "nil", "zero", TRUE, 0)
    /\ UNCHANGED <<facade, frames, gateway, queued, codec, mirror, migration>>

CreateSilence == \E o \in BindingOutcomes : Recovered("CreateSilence", o)

DeleteSilence == \E o \in BindingOutcomes : Recovered("DeleteSilence", o)

GetSilence == \E o \in BindingOutcomes : Recovered("GetSilence", o)

ListSilences == \E o \in BindingOutcomes : Recovered("ListSilences", o)

GetAlerts == \E o \in BindingOutcomes : Recovered("GetAlerts", o)

GetAlertGroups == \E o \in BindingOutcomes : Recovered("GetAlertGroups", o)

\* Lines 316-328: no deferred recover(); a panic of the binding unwinds
\* through GetReceivers into its caller.
GetReceivers ==
    /\ Built
    /\ \E o \in BindingOutcomes :
         /\ \E w \in BindingRequests("GetReceivers", o) : wire' = w
         /\ resBody' = "none"
         /\ lastRet' =
                    CASE o = "ok"    -> Ret("GetReceivers", "nil", "payload", FALSE, 0)
                      [] o = "err"   -> Ret("GetReceivers", "bindingError", "zero", FALSE, 0)
                      [] o = "panic" -> Ret("GetReceivers", "panic", "none", TRUE, 0)
    /\ UNCHANGED <<facade, frames, gateway, queued, codec, mirror, migration>>

\* A plausible slip: the batch is delivered before PutAlerts returns, which
\* takes a running dispatcher with a target and one request.
PutAlertsDelivers ==
    /\ Built
    /\ senderRunning /\ targets > 0
    /\ lastRet' = Ret("PutAlerts", "nil", "", FALSE, StatusOK)
    /\ wire' = Do(am, Request("POST", am.url \o DefaultBasePath \o <<"/alerts">>))
    /\ resBody' = "none"
    /\ UNCHANGED <<facade, frames, gateway, queued, codec, mirror, migration>>

\* Lines 306-310: ctx is not used; the batch goes to the sender's queue
\* (sender.SendAlerts) and PutAlerts returns nil.
PutAlerts ==
    /\ Built
    /\ queued' = TRUE
    /\ lastRet' = Ret("PutAlerts", "nil", "", FALSE, 0)
    /\ wire' = <<>>
    /\ resBody' = "none"
    /\ UNCHANGED <<facade, frames, gateway, codec, mirror, migration>>

\* The dispatcher, on its own schedule, delivers the queued alerts to a
\* target it has discovered.
DispatcherSends ==
    /\ senderRunning /\ senderCfg # <<>>
    /\ targets > 0
    /\ queued
    /\ queued' = FALSE
    /\ UNCHANGED <<facade, frames, lastRet, wire, resBody, gateway, codec, mirror, migration>>

\* A plausible slip: stopping the sender also marks the facade not ready.
StopAndWaitResetsReady ==
    /\ Built
    /\ senderRunning' = FALSE
    /\ ready' = FALSE
    /\ lastRet' = Ret("StopAndWait", "nil", "", FALSE, 0)
    /\ wire' = <<>>
    /\ resBody' = "none"
    /\ UNCHANGED <<targets, localCfg, frames, gateway, queued, codec, mirror, migration>>

\* Lines 338-340.
StopAndWait ==
    /\ Built
    /\ senderRunning' = FALSE
    /\ lastRet' = Ret("StopAndWait", "nil", "", FALSE, 0)
    /\ wire' = <<>>
    /\ resBody' = "none"
    /\ UNCHANGED <<ready, targets, localCfg, frames, gateway, queued, codec, mirror, migration>>

\* Line 347: no-op.
CleanUp ==
    /\ Built
    /\ lastRet' = Ret("CleanUp", "nil", "", FALSE, 0)
    /\ wire' = <<>>
    /\ resBody' = "none"
    /\ UNCHANGED <<facade, frames, gateway, queued, codec, mirror, migration>>

\* ------------------------------------------------------ config push/pull
\* Lines 368-416: the error of the POST (nil: the remote answered 201).
postConfig(r) ==
    IF r.err # "nil" THEN "transportError"
    ELSE IF r.code # StatusCreated THEN "unexpectedStatus"
    ELSE "nil"

\* A plausible slip: a 404 is not told apart from the other statuses.
getConfigAnyStatus(r) ==
    IF r.err # "nil" THEN "transportError"
    ELSE IF r.code # StatusOK THEN "unexpectedStatus"
    ELSE "nil"

\* Lines 418-470: the error of the GET (nil: the remote answered 200).
getConfig(r) ==
    IF r.err # "nil" THEN "transportError"
    ELSE IF r.code # StatusOK
         THEN IF r.code = StatusNotFound THEN "configNotFound" ELSE "unexpectedStatus"
    ELSE "nil"

\* What reading and decoding the body of a response can come to.
BodyOutcomes == {"ok", "bad"}

\* What becomes of res.Body when the operation returns: there is none when
\* Do failed; it is closed when the deferred Close was registered before the
\* return, and left open otherwise.
ResBody(r, deferred) ==
    IF r.err # "nil" THEN "none"
    ELSE IF deferred THEN "closed"
    ELSE "open"

\* Lines 397-405: postConfig registers the Close after the status check.
postConfigDefers(r) == r.code = StatusCreated

\* Lines 431-442: getConfig registers the Close after the status check.
getConfigDefers(r) == r.code = StatusOK

\* Lines 172-185: hand the document to the store; the store may fail.
saveConfig(op, cfg, status) ==
    \/ /\ localCfg' = cfg
       /\ lastRet' = Ret(op, "nil", "", FALSE, status)
    \/ /\ localCfg' = localCfg
       /\ lastRet' = Ret(op, "storeError", "", FALSE, status)

\* A plausible slip: the document is persisted before it is pushed, so it
\* is persisted whatever the remote answers.
SaveAndApplyConfigSavesFirst ==
    /\ Built
    /\ \E r \in Responses, cfg \in Cfgs :
         /\ wire' = Do(am, Request("POST", postConfigURL(am)))
         /\ resBody' = ResBody(r, postConfigDefers(r))
         /\ localCfg' = cfg
         /\ lastRet' = Ret("SaveAndApplyConfig", postConfig(r), "", FALSE, r.code)
    /\ UNCHANGED <<ready, targets, senderRunning, frames, gateway, queued, codec, mirror, migration>>

\* Lines 165-170: push, and only when the push succeeded, persist.  The push
\* (lines 368-416) fails before its request when the document does not
\* marshal, and after a 201 when the body of the response cannot be read.
SaveAndApplyConfig ==
    /\ Built
    /\ \/ /\ wire' = <<>>
          /\ resBody' = "none"
          /\ localCfg' = localCfg
          /\ lastRet' = Ret("SaveAndApplyConfig", "marshalError", "", FALSE, 0)
       \/ /\ wire' = Do(am, Request("POST", postConfigURL(am)))
          /\ \E r \in Responses :
               /\ resBody' = ResBody(r, postConfigDefers(r))
               /\ IF postConfig(r) # "nil"
                  THEN /\ localCfg' = localCfg
                       /\ lastRet' = Ret("SaveAndApplyConfig", postConfig(r), "",
                                         FALSE, r.code)
                  ELSE \E b \in BodyOutcomes :
                         IF b = "bad"
                         THEN /\ localCfg' = localCfg
                              /\ lastRet' = Ret("SaveAndApplyConfig", "readError", "",
                                                FALSE, r.code)
                         ELSE \E cfg \in Cfgs :
                                saveConfig("SaveAndApplyConfig", cfg, r.code)
    /\ UNCHANGED <<ready, targets, senderRunning, frames, gateway, queued, codec, mirror, migration>>

\* A plausible slip: the default config is reset on the remote by a push.
SaveAndApplyDefaultConfigPushes ==
    /\ Built
    /\ wire' = Do(am, Request("POST", postConfigURL(am)))
    /\ \E r \in Responses :
         /\ resBody' = ResBody(r, postConfigDefers(r))
         /\ IF postConfig(r) # "nil"
            THEN /\ localCfg' = localCfg
                 /\ lastRet' = Ret("SaveAndApplyDefaultConfig", postConfig(r), "",
                                   FALSE, r.code)
            ELSE saveConfig("SaveAndApplyDefaultConfig", 0, r.code)
    /\ UNCHANGED <<ready, targets, senderRunning, frames, gateway, queued, codec, mirror, migration>>

\* Lines 190-197: pull, and only when the pull succeeded, persist.  The
\* document pulled is whatever the remote applies now (0: its default); the
\* pull (lines 418-470) fails on a 200 whose body does not read or decode.
SaveAndApplyDefaultConfig ==
    /\ Built
    /\ wire' = Do(am, Request("GET", getConfigURL(am)))
    /\ \E r \in Responses :
         /\ resBody' = ResBody(r, getConfigDefers(r))
         /\ IF getConfig(r) # "nil"
            THEN /\ localCfg' = localCfg
                 /\ lastRet' = Ret("SaveAndApplyDefaultConfig", getConfig(r), "",
                                   FALSE, r.code)
            ELSE \E b \in BodyOutcomes :
                   IF b = "bad"
                   THEN /\ localCfg' = localCfg
                        /\ lastRet' = Ret("SaveAndApplyDefaultConfig", "decodeError", "",
                                          FALSE, r.code)
                   ELSE \E cfg \in 0..MaxCfg :
                          saveConfig("SaveAndApplyDefaultConfig", cfg, r.code)
    /\ UNCHANGED <<ready, targets, senderRunning, frames, gateway, queued, codec, mirror, migration>>

\* ------------------------------------------------- the config on the wire
\* JSON values; Marshal makes the text of a value, Unmarshal reads it back.
JNull == [t |-> "null"]
JString(x) == [t |-> "string", v |-> x]
JArray(q) == [t |-> "array", v |-> q]
JObject(f) == [t |-> "object", v |-> f]
Marshal(j) == [text |-> j]
EmptyText == [empty |-> TRUE]
Field(j, k) == IF j.t = "object" /\ k \in DOMAIN j.v THEN j.v[k] ELSE JNull

\* A Go map[string]string: nil, or a finite map.
NilMap == [nil |-> TRUE, kv |-> <<>>]
GoMap(f) == [nil |-> FALSE, kv |-> f]

\* The documents pushed: template files over two names, and a structured
\* configuration with a route and a list of receivers.
TemplateNames == {"t1", "t2"}
TemplateTexts == {"", "{{ .Alert }}"}
TemplateFileMaps ==
    {NilMap} \cup
    UNION {{GoMap(f) : f \in [ns -> TemplateTexts]} : ns \in SUBSET TemplateNames}
AlertingConfigs ==
    {[route |-> [receiver |-> r], receivers |-> rs] :
        r \in {"", "r1"}, rs \in {<<>>, <<"r1">>, <<"r1", "r2">>}}
PostableUserConfig(tf, ac) == [TemplateFiles |-> tf, AlertmanagerConfig |-> ac]
Documents ==
    {PostableUserConfig(tf, ac) : tf \in TemplateFileMaps, ac \in AlertingConfigs}

\* encoding/json on map[string]string: a nil map is null, a map an object.
MarshalMap(m) ==
    IF m.nil THEN JNull ELSE JObject([k \in DOMAIN m.kv |-> JString(m.kv[k])])
UnmarshalMap(j) ==
    IF j.t = "object" THEN GoMap([k \in DOMAIN j.v |-> j.v[k].v]) ELSE NilMap

\* The JSON form of the structured configuration type and its reading.
MarshalAlertingConfig(ac) ==
    JObject([k \in {"route", "receivers"} |->
        IF k = "route"
        THEN JObject([f \in {"receiver"} |-> JString(ac.route.receiver)])
        ELSE JArray([i \in 1..Len(ac.receivers) |->
                 JObject([f \in {"name"} |-> JString(ac.receivers[i])])])])
UnmarshalAlertingConfig(j) ==
    [route |-> [receiver |-> Field(j, "route").v["receiver"].v],
     receivers |-> [i \in 1..Len(Field(j, "receivers").v) |->
                       Field(j, "receivers").v[i].v["name"].v]]

\* A plausible slip: the structured configuration is put into the envelope
\* as an object, not as the string of its JSON text.
postConfigBodyNested(doc) ==
    Marshal(JObject([k \in {"template_files", "grafana_alertmanager_config"} |->
        IF k = "template_files" THEN MarshalMap(doc.TemplateFiles)
        ELSE MarshalAlertingConfig(doc.AlertmanagerConfig)]))

\* Lines 369-384: the body of the POST.  The structured configuration is
\* marshalled, and the string of that text is a field of the envelope.
postConfigBody(doc) ==
    LET cfgBytes == Marshal(MarshalAlertingConfig(doc.AlertmanagerConfig))
    IN  Marshal(JObject([k \in {"template_files", "grafana_alertmanager_config"} |->
            IF k = "template_files" THEN MarshalMap(doc.TemplateFiles)
            ELSE JString(cfgBytes)]))

\* The remote answers a pull with the envelope it was pushed, under "data".
EchoBody(b) == Marshal(JObject([k \in {"data"} |-> b.text]))

\* Lines 449-469: the body of the GET is decoded into the envelope, and the
\* string in it is decoded a second time into the structured configuration.
getConfigDocument(b) ==
    LET data == Field(b.text, "data")
        tf == UnmarshalMap(Field(data, "template_files"))
        raw == Field(data, "grafana_alertmanager_config")
        str == IF raw.t = "null" THEN EmptyText ELSE raw.v
    IN  IF raw.t \notin {"null", "string"}
        THEN [err |-> "unmarshalError", TemplateFiles |-> NilMap, raw |-> JNull]
        ELSE IF str = EmptyText
        THEN [err |-> "unmarshalError", TemplateFiles |-> tf, raw |-> JNull]
        ELSE [err |-> "nil", TemplateFiles |-> tf, raw |-> str.text]

\* postConfig marshals the document and sends the body.
CodecPush ==
    /\ codec.stage = "push"
    /\ codec' = [stage |-> "pushed", doc |-> codec.doc,
                 body |-> postConfigBody(codec.doc)]
    /\ UNCHANGED <<facade, frames, lastRet, wire, resBody, gateway, queued, mirror, migration>>

\* The remote echoes the envelope.
CodecEcho ==
    /\ codec.stage = "pushed"
    /\ codec' = [stage |-> "echoed", doc |-> codec.doc, body |-> codec.body,
                 reply |-> EchoBody(codec.body)]
    /\ UNCHANGED <<facade, frames, lastRet, wire, resBody, gateway, queued, mirror, migration>>

\* getConfig decodes the reply into a document, or fails.
CodecPull ==
    /\ codec.stage = "echoed"
    /\ LET d == getConfigDocument(codec.reply)
       IN  codec' = [stage |-> "pulled", doc |-> codec.doc, body |-> codec.body,
                     err |-> d.err,
                     out |-> IF d.err = "nil"
                             THEN <<PostableUserConfig(d.TemplateFiles,
                                        UnmarshalAlertingConfig(d.raw))>>
                             ELSE <<>>]
    /\ UNCHANGED <<facade, frames, lastRet, wire, resBody, gateway, queued, mirror, migration>>

\* A gateway about to push any of the documents.
InitCodec ==
    /\ InitBuilt(TypicalConfig)
    /\ codec \in {[stage |-> "push", doc |-> d] : d \in Documents}
    /\ pc = [c \in Callers |-> "idle"]

NextCodec == CodecPush \/ CodecEcho \/ CodecPull

\* ApplyConfig / checkReadiness, the passage of time and the discovery.
NextProtocol ==
    \/ \E c \in Callers : CallApplyConfig(c)
    \/ \E c \in Callers : Cancel(c)
    \/ \E c \in Callers : ApplyConfig(c)
    \/ \E c \in Callers : checkReadinessProbe(c)
    \/ \E c \in Callers : checkReadinessTick(c)
    \/ \E c \in Callers : checkReadinessSetReady(c)
    \/ \E c \in Callers : checkReadinessTimeout(c)
    \/ TimePasses
    \/ TimerStall
    \/ DiscoveryChanges

\* The one-step operations on the flag and the dispatcher's lifecycle.
NextFacade ==
    \/ Ready
    \/ StopAndWait
    \/ CleanUp

\* The alert path: the facade enqueues, the dispatcher delivers.
NextDispatch ==
    \/ PutAlerts
    \/ DispatcherSends

\* The readiness protocol, the dispatcher and the facade's lifecycle.
NextReadiness == NextProtocol \/ NextFacade

\* Config push and pull: they touch the config store only.
NextConfig ==
    \/ SaveAndApplyConfig
    \/ SaveAndApplyDefaultConfig

\* The proxies of the client binding: they touch no state at all.
NextRelay ==
    \/ CreateSilence
    \/ DeleteSilence
    \/ GetSilence
    \/ ListSilences
    \/ GetAlerts
    \/ GetAlertGroups
    \/ GetReceivers

\* Everything a caller can do with a gateway once it is built.
Next == NextReadiness \/ NextConfig \/ NextRelay \/ NextDispatch

Spec == Init /\ [][Next]_vars

\* The facade without the binding proxies.
LifecycleSpec == Init /\ [][NextReadiness \/ NextConfig]_vars

\* The readiness protocol and the lifecycle alone.
ReadinessSpec == Init /\ [][NextReadiness]_vars

\* From the construction on, with every config a caller may pass: the
\* constructor and the one-step operations.
NextGateway ==
    \/ NewAlertmanager
    \/ NextFacade
    \/ NextConfig
    \/ NextRelay
    \/ NextDispatch
    \/ DiscoveryChanges
GatewaySpec == InitUnbuilt /\ [][NextGateway]_vars

\* From the construction on: one goroutine, the readiness protocol, the
\* lifecycle and the alert path (every operation that reaches the dispatcher).
NextDispatcher == NewAlertmanager \/ NextReadiness \/ NextDispatch
DispatcherSpec == InitUnbuilt /\ [][NextDispatcher]_vars

\* Push, echo and pull of every document.
CodecSpec == InitCodec /\ [][NextCodec]_vars

\* One goroutine, every operation, every tenant and password.
TenantSpec == InitSoloTenants /\ [][Next]_vars

\* Time passes; a goroutine that can run does run; a select that has a case
\* ready again and again takes that case in the end (it picks at random
\* among the ready cases).
Fairness ==
    /\ WF_vars(TimePasses)
    /\ \A c \in Callers :
         /\ WF_vars(ApplyConfig(c))
         /\ WF_vars(checkReadinessProbe(c))
         /\ WF_vars(checkReadinessTick(c))
         /\ WF_vars(checkReadinessSetReady(c))
         /\ SF_vars(checkReadinessTimeout(c))

\* One caller of ApplyConfig, under fair scheduling.
SoloFairSpec == InitSolo /\ [][Next]_vars /\ Fairness

\* One caller of ApplyConfig and of the lifecycle, under fair scheduling.
SoloReadinessFairSpec == InitSolo /\ [][NextReadiness]_vars /\ Fairness

\* am.ready is a plain bool field; the struct holds no mutex and no atomic.
ReadyGuarded == FALSE

RelayOps == {"CreateSilence", "DeleteSilence", "GetSilence", "ListSilences",
             "GetAlerts", "GetAlertGroups"}

\* ------------------------------------- SaveAndApplyConfig, call by call
\* The documents concurrent callers push: as many as there are callers.
PushCfgs == 1..NumCallers

\* Lines 165-167 and 368-416 for callers that run concurrently: the push of
\* one call.  On 201 the remote has accepted the document; the call goes on
\* to persist it unless the body of the response cannot be read.  Any other
\* answer ends the call with nothing accepted.
SaveAndApplyConfigPush(c) ==
    /\ Built
    /\ saving[c].at # "pushed"
    /\ \E cfg \in PushCfgs, r \in Responses, b \in BodyOutcomes :
         IF postConfig(r) = "nil" /\ b = "ok"
         THEN /\ remoteCfg' = cfg
              /\ saving' = [saving EXCEPT ![c] = [at |-> "pushed", cfg |-> cfg]]
              /\ UNCHANGED <<lastRet, wire, resBody>>
         ELSE /\ remoteCfg' = IF postConfig(r) = "nil" THEN cfg ELSE remoteCfg
              /\ saving' = [saving EXCEPT ![c] =
                              [at |-> "done",
                               err |-> IF postConfig(r) = "nil" THEN "readError"
                                       ELSE postConfig(r)]]
              /\ lastRet' = Ret("SaveAndApplyConfig",
                                IF postConfig(r) = "nil" THEN "readError"
                                ELSE postConfig(r), "", FALSE, r.code)
              /\ wire' = Do(am, Request("POST", postConfigURL(am)))
              /\ resBody' = ResBody(r, postConfigDefers(r))
    /\ UNCHANGED <<facade, frames, gateway, queued, codec, migration>>

\* Lines 169 and 172-185 for callers that run concurrently: the persist of
\* one call, after its push was accepted; the store may fail.
SaveAndApplyConfigSave(c) ==
    /\ saving[c].at = "pushed"
    /\ \E e \in {"nil", "storeError"} :
         /\ localCfg' = IF e = "nil" THEN saving[c].cfg ELSE localCfg
         /\ saving' = [saving EXCEPT ![c] = [at |-> "done", err |-> e]]
         /\ lastRet' = Ret("SaveAndApplyConfig", e, "", FALSE, StatusCreated)
    /\ wire' = Do(am, Request("POST", postConfigURL(am)))
    /\ resBody' = "closed"
    /\ UNCHANGED <<ready, targets, senderRunning, frames, gateway, queued,
                   codec, remoteCfg, migration>>

NextMirror ==
    \/ \E c \in Callers : SaveAndApplyConfigPush(c)
    \/ \E c \in Callers : SaveAndApplyConfigSave(c)

\* Concurrent callers of SaveAndApplyConfig on one gateway, and a remote
\* that applies the document it accepted last.
MirrorSpec == Init /\ [][NextMirror]_vars

\* --------------------------------------------- migrationService (service.go)
\* Everything the migration leaves alone.
alertmanager == <<facade, frames, lastRet, wire, resBody, gateway, queued,
                  codec, mirror>>

\* What a call of the store, of the transaction or of the lock can come to.
StoreOutcomes == {"nil", "err"}

\* The flags of the kvstore, one per org and one for anyOrg.
Flags == [{anyOrg} \cup Orgs -> BOOLEAN]

\* What a Run did, in order.
Event(ev, org) == [ev |-> ev, org |-> org]
Reverted == Event("revert", anyOrg)
Failed == Event("fail", anyOrg)

\* serverlock.LockExecuteAndRelease takes the lock when no server holds it
\* and the database answers; else it returns an error without calling fn.
Acquired(o) == lock = 0 /\ o = "nil"

\* db.InTransaction commits what fn wrote when fn returned nil and the commit
\* went through; else it rolls back.
Committed(f, o) == f.pc = "commit" /\ o = "nil"

\* migrationStore.RevertAllOrgs deletes the unified-alerting data and the
\* migration state of every org: all orgs are migrated from scratch.
RevertAllOrgs(tx) == [o \in DOMAIN tx |-> IF o \in Orgs THEN FALSE ELSE tx[o]]

\* The frame of a Run whose fn has been entered: the server's settings, the
\* flags as the transaction sees them, the local migrated of line 64, the
\* orgs the loop has yet to visit, and what was done so far.
RunFrame(en, cl) ==
    [pc |-> "status", enabled |-> en, clean |-> cl, before |-> isMigrated,
     tx |-> isMigrated, migrated |-> FALSE, orgs |-> <<>>, log |-> <<>>]

\* What Run returned: its error, whether fn ran under the lock, the settings,
\* the flags before, and what was done.
Ran(sv, err, held, en, cl, before, log) ==
    [server |-> sv, err |-> err, held |-> held, enabled |-> en, clean |-> cl,
     before |-> before, log |-> log]

\* fn returns the error of a failed step.
Fail(f) == [f EXCEPT !.pc = "rollback", !.log = Append(f.log, Failed)]

\* A plausible slip: fn is run without the lock being looked at.
RunLockIgnored(sv) ==
    /\ run[sv].pc = "idle"
    /\ \E en \in BOOLEAN, cl \in BOOLEAN :
         /\ lock' = sv
         /\ run' = [run EXCEPT ![sv] = RunFrame(en, cl)]
         /\ UNCHANGED <<isMigrated, ran>>
    /\ UNCHANGED alertmanager

\* Lines 59-63 and 111-114: Run asks for the lock "alerting migration".  With
\* the lock fn is entered inside a transaction; without it Run logs a warning
\* and returns nil.
RunLock(sv) ==
    /\ run[sv].pc = "idle"
    /\ \E en \in BOOLEAN, cl \in BOOLEAN, o \in StoreOutcomes :
         IF Acquired(o)
         THEN /\ lock' = sv
              /\ run' = [run EXCEPT ![sv] = RunFrame(en, cl)]
              /\ UNCHANGED <<isMigrated, ran>>
         ELSE /\ ran' = Ran(sv, "nil", FALSE, en, cl, isMigrated, <<>>)
              /\ UNCHANGED <<isMigrated, lock, run>>
    /\ UNCHANGED alertmanager

\* A plausible slip: with unified alerting disabled the flag of anyOrg is
\* left as it is.
RunStatusKeepsFlag(sv) ==
    /\ run[sv].pc = "status"
    /\ \E o \in StoreOutcomes :
         LET f == run[sv]
             m == f.tx[anyOrg]
         IN  run' = [run EXCEPT ![sv] =
                IF o = "err" THEN Fail(f)
                ELSE IF ~f.enabled THEN [f EXCEPT !.migrated = m, !.pc = "commit"]
                ELSE IF m THEN [f EXCEPT !.migrated = m, !.pc = "commit"]
                ELSE IF f.clean THEN [f EXCEPT !.migrated = m, !.pc = "revert"]
                ELSE [f EXCEPT !.migrated = m, !.pc = "orgs"]]
    /\ UNCHANGED <<isMigrated, lock, ran, alertmanager>>

\* A plausible slip: the early return on migrated is missing.
RunStatusIgnoresMigrated(sv) ==
    /\ run[sv].pc = "status"
    /\ \E o \in StoreOutcomes, w \in StoreOutcomes :
         LET f == run[sv]
             m == f.tx[anyOrg]
         IN  run' = [run EXCEPT ![sv] =
                IF o = "err" THEN Fail(f)
                ELSE IF ~f.enabled
                THEN IF w = "err" THEN Fail([f EXCEPT !.migrated = m])
                     ELSE [f EXCEPT !.migrated = m, !.pc = "commit",
                                    !.tx = [f.tx EXCEPT ![anyOrg] = FALSE]]
                ELSE IF f.clean THEN [f EXCEPT !.migrated = m, !.pc = "revert"]
                ELSE [f EXCEPT !.migrated = m, !.pc = "orgs"]]
    /\ UNCHANGED <<isMigrated, lock, ran, alertmanager>>

\* Lines 64-94: read the flag of anyOrg.  With unified alerting disabled set
\* it to false and return nil; with the flag set return nil; else revert
\* first when CleanUpgrade is set, and migrate.
RunStatus(sv) ==
    /\ run[sv].pc = "status"
    /\ \E o \in StoreOutcomes, w \in StoreOutcomes :
         LET f == run[sv]
             m == f.tx[anyOrg]
         IN  run' = [run EXCEPT ![sv] =
                IF o = "err" THEN Fail(f)
                ELSE IF ~f.enabled
                THEN IF w = "err" THEN Fail([f EXCEPT !.migrated = m])
                     ELSE [f EXCEPT !.migrated = m, !.pc = "commit",
                                    !.tx = [f.tx EXCEPT ![anyOrg] = FALSE]]
                ELSE IF m THEN [f EXCEPT !.migrated = m, !.pc = "commit"]
                ELSE IF f.clean THEN [f EXCEPT !.migrated = m, !.pc = "revert"]
                ELSE [f EXCEPT !.migrated = m, !.pc = "orgs"]]
    /\ UNCHANGED <<isMigrated, lock, ran, alertmanager>>

\* Lines 85-94: RevertAllOrgs, which may fail.
RunRevert(sv) ==
    /\ run[sv].pc = "revert"
    /\ \E o \in StoreOutcomes :
         LET f == run[sv]
         IN  run' = [run EXCEPT ![sv] =
                IF o = "err" THEN Fail(f)
                ELSE [f EXCEPT !.pc = "orgs", !.tx = RevertAllOrgs(f.tx),
                               !.log = Append(f.log, Reverted)]]
    /\ UNCHANGED <<isMigrated, lock, ran, alertmanager>>

\* Lines 97 and 122-126: GetAllOrgs, which may fail.
migrateAllOrgs(sv) ==
    /\ run[sv].pc = "orgs"
    /\ \E o \in StoreOutcomes :
         LET f == run[sv]
         IN  run' = [run EXCEPT ![sv] =
                IF o = "err" THEN Fail(f)
                ELSE [f EXCEPT !.pc = "org", !.orgs = [i \in 1..MaxOrgs |-> i]]]
    /\ UNCHANGED <<isMigrated, lock, ran, alertmanager>>

\* What one round of the loop can come to: the error of IsMigrated, of
\* migrateOrg, of SetOrgMigrationState or of SetMigrated, or none.
OrgOutcomes == {"nil", "isMigrated", "migrateOrg", "setState", "setMigrated"}

\* A plausible slip: the org's flag is not looked at.
migrateOrgAgain(sv) ==
    /\ run[sv].pc = "org"
    /\ LET f == run[sv]
       IN  IF f.orgs = <<>>
           THEN run' = [run EXCEPT ![sv] = [f EXCEPT !.pc = "set"]]
           ELSE \E o \in OrgOutcomes :
                  LET org == Head(f.orgs)
                      did == Append(f.log, Event("migrate", org))
                  IN  run' = [run EXCEPT ![sv] =
                         IF o = "isMigrated" THEN Fail(f)
                         ELSE IF o # "nil" THEN Fail([f EXCEPT !.log = did])
                         ELSE [f EXCEPT !.orgs = Tail(f.orgs), !.log = did,
                                        !.tx = [f.tx EXCEPT ![org] = TRUE]]]
    /\ UNCHANGED <<isMigrated, lock, ran, alertmanager>>

\* Lines 128-153: one round of the loop, or its end.  An org whose flag is
\* set is skipped; else it is migrated, its state saved and its flag set.
migrateOrg(sv) ==
    /\ run[sv].pc = "org"
    /\ LET f == run[sv]
       IN  IF f.orgs = <<>>
           THEN run' = [run EXCEPT ![sv] = [f EXCEPT !.pc = "set"]]
           ELSE \E o \in OrgOutcomes :
                  LET org == Head(f.orgs)
                      did == Append(f.log, Event("migrate", org))
                  IN  run' = [run EXCEPT ![sv] =
                         IF o = "isMigrated" THEN Fail(f)
                         ELSE IF f.tx[org]
                         THEN [f EXCEPT !.orgs = Tail(f.orgs),
                                        !.log = Append(f.log, Event("skip", org))]
                         ELSE IF o # "nil" THEN Fail([f EXCEPT !.log = did])
                         ELSE [f EXCEPT !.orgs = Tail(f.orgs), !.log = did,
                                        !.tx = [f.tx EXCEPT ![org] = TRUE]]]
    /\ UNCHANGED <<isMigrated, lock, ran, alertmanager>>

\* Lines 102-108: set the flag of anyOrg, which may fail.
RunSetMigrated(sv) ==
    /\ run[sv].pc = "set"
    /\ \E o \in StoreOutcomes :
         LET f == run[sv]
         IN  run' = [run EXCEPT ![sv] =
                IF o = "err" THEN Fail(f)
                ELSE [f EXCEPT !.pc = "commit",
                               !.tx = [f.tx EXCEPT ![anyOrg] = TRUE]]]
    /\ UNCHANGED <<isMigrated, lock, ran, alertmanager>>

\* Lines 109-119: fn has returned; the transaction commits or rolls back, the
\* lock is released and Run returns errMigration, wrapped when not nil.
RunReturn(sv) ==
    /\ run[sv].pc \in {"commit", "rollback"}
    /\ \E o \in StoreOutcomes :
         LET f == run[sv]
         IN  /\ isMigrated' = IF Committed(f, o) THEN f.tx ELSE isMigrated
             /\ ran' = Ran(sv, IF Committed(f, o) THEN "nil" ELSE "migrationFailed",
                           TRUE, f.enabled, f.clean, f.before,
                           IF f.pc = "commit" /\ o = "err"
                           THEN Append(f.log, Failed) ELSE f.log)
    /\ lock' = IF lock = sv THEN 0 ELSE lock
    /\ run' = [run EXCEPT ![sv] = NoRun]
    /\ UNCHANGED alertmanager

\* What the database can hold when a Run starts with the flag of anyOrg
\* false: orgs migrated by an earlier Run, orgs created since.
InitUpgrade ==
    /\ InitNoGateway
    /\ isMigrated \in {f \in Flags : ~f[anyOrg]}
    /\ lock = 0
    /\ run = [sv \in Servers |-> NoRun]
    /\ ran = NoRan

NextMigration ==
    \/ \E sv \in Servers : RunLock(sv)
    \/ \E sv \in Servers : RunStatus(sv)
    \/ \E sv \in Servers : RunRevert(sv)
    \/ \E sv \in Servers : migrateAllOrgs(sv)
    \/ \E sv \in Servers : migrateOrg(sv)
    \/ \E sv \in Servers : RunSetMigrated(sv)
    \/ \E sv \in Servers : RunReturn(sv)

\* The servers of one installation, each calling Run with its own settings,
\* again and again.
MigrationSpec == InitUpgrade /\ [][NextMigration]_vars

\* ================================================================ claims

\* C1: establish-readiness is bounded: after a 200 probe, with the
\* dispatcher reporting zero targets at every tick, the call terminates once
\* the 10 s deadline counted from the end of the probe has elapsed (time
\* keeps passing, so a caller in the select loop leaves it unless a target
\* shows up).
EstablishReadinessTerminates ==
    \A c \in Callers : (pc[c] = "poll") ~> (pc[c] # "poll" \/ targets > 0)

\* C2: a relay call during which the client binding panicked returns a
\* non-nil error to its caller.
RelayFaultReturnsError ==
    (lastRet.op \in RelayOps /\ lastRet.fault) => lastRet.err # "nil"

\* C3: no public operation lets a panic of the client binding escape to its
\* caller (GetReceivers included).
FaultNeverEscapes == lastRet.fault => lastRet.err # "panic"

\* C4: the readiness flag is monotone: once true it is true in every later
\* state, whatever operation runs.
ReadyNeverReverts == [][ready => ready']_vars

\* C4 witness: the flag is true and, after it was set, the sender was
\* stopped, the dispatcher lost its targets and a config push failed.
ReadyAfterLaterFailures ==
    /\ ready
    /\ ~senderRunning
    /\ targets = 0
    /\ lastRet.op = "SaveAndApplyConfig"
    /\ lastRet.err # "nil"

\* C5: the flag becomes true only in checkReadiness, by an invocation whose
\* own probe returned 200, at a tick at which the dispatcher reported at
\* least one target; that invocation returns nil, and it does so at the
\* first tick that finds a target.
ReadySetOnlyAtSuccessfulTick ==
    /\ [](\A c \in Callers : pc[c] = "store" => (res[c] = StatusOK /\ n[c] > 0))
    /\ [][/\ (~ready /\ ready') =>
               \E c \in Callers :
                   /\ pc[c] = "store"
                   /\ pc'[c] = "idle"
                   /\ lastRet' = Ret("ApplyConfig", "nil", "set", FALSE, StatusOK)
          /\ \A c \in Callers :
               /\ (pc[c] # "store" /\ pc'[c] = "store") =>
                      (pc[c] = "poll" /\ tickDue[c] /\ targets > 0)
               /\ (/\ pc[c] = "poll" /\ pc'[c] # "idle"
                   /\ tickDue[c] /\ ~tickDue'[c] /\ targets > 0) =>
                      pc'[c] = "store"
               /\ (pc[c] = "store" /\ pc'[c] # "store") =>
                      (pc'[c] = "idle" /\ ready' /\ lastRet'.err = "nil")
         ]_vars

\* C5 witness: an invocation has just set the flag and returned nil.
ReadyJustSet ==
    ready /\ lastRet = Ret("ApplyConfig", "nil", "set", FALSE, StatusOK)

\* C6: when the probe fails (transport error or a status other than 200), the
\* invocation returns an error at once: it never reaches the select loop (so
\* never reads the dispatcher's targets) and does not write the flag.
FailedProbeReturnsAtOnce ==
    /\ [](\A c \in Callers : pc[c] \in {"poll", "store"} => res[c] = StatusOK)
    /\ [][\A c \in Callers :
            (pc[c] = "probe" /\ pc'[c] # "probe") =>
                \/ pc'[c] = "poll" /\ res'[c] = StatusOK
                \/ /\ pc'[c] = "idle"
                   /\ lastRet'.op = "ApplyConfig"
                   /\ lastRet'.err \in {"probeError", "canceled", "notReadyStatus"}
                   /\ lastRet'.status # StatusOK
                   /\ ready' = ready
                   /\ n' = n
         ]_vars

\* C6 witness: an invocation returned on a probe answered with another
\* status, and the flag is false.
ProbeRejected ==
    /\ ~ready
    /\ lastRet.op = "ApplyConfig"
    /\ lastRet.err = "notReadyStatus"
    /\ lastRet.status = StatusNotFound

\* C7: with the flag already true, ApplyConfig returns nil at once: no probe
\* request, no read of the dispatcher, no change of any state.
ReadyApplyConfigIsNoop ==
    [][\A c \in Callers :
         (pc[c] = "applyLoad" /\ ready /\ pc'[c] # "applyLoad") =>
             /\ pc'[c] = "idle"
             /\ lastRet' = Ret("ApplyConfig", "nil", "noop", FALSE, 0)
             /\ UNCHANGED <<facade, ctxDone, res, n, tickDue, sinceSelect>>
      ]_vars

\* C7 witness: an ApplyConfig found the flag set and returned.
NoopReturned ==
    ready /\ lastRet = Ret("ApplyConfig", "nil", "noop", FALSE, 0)

\* C8: whatever the interleaving of concurrent ApplyConfig calls, am.ready is
\* written at most once: the flag is false before its first store and true
\* ever after, so no store is executed once it is true.
ReadyWrittenAtMostOnce ==
    [][\A c \in Callers : (pc[c] = "store" /\ pc'[c] # "store") => ~ready]_vars

\* C9: accesses to am.ready are synchronised: no state has one caller about
\* to store am.ready while another is about to load it, unless the field is
\* atomic or lock-guarded.
ReadyAccessSynchronised ==
    ReadyGuarded \/
    ~\E w \in Callers, r \in Callers :
        w # r /\ pc[w] = "store" /\ pc[r] = "applyLoad"

\* C10: a caller in the select loop whose ctx is cancelled does nothing more
\* than return the cancellation error: it neither handles another tick nor
\* returns anything else.
CancelledPollReturnsCanceled ==
    [][\A c \in Callers :
         (/\ pc[c] = "poll"
          /\ ctxDone[c]
          /\ (pc'[c] # "poll" \/ (tickDue[c] /\ ~tickDue'[c]))) =>
             (pc'[c] = "idle" /\ lastRet'.err = "canceled")
      ]_vars

\* C11 as written: construction with an empty URL fails before any network
\* call and before the dispatcher is started; construction with any
\* non-empty URL succeeds and yields a gateway whose readiness flag is false.
NonEmptyURLAlwaysConstructs ==
    lastRet.op = "NewAlertmanager" =>
        IF amCfg.URL = <<>>
        THEN lastRet.err # "nil" /\ ~Built /\ ~senderRunning /\ wire = <<>>
        ELSE lastRet.err = "nil" /\ Built /\ ~ready

\* C11 (amended): construction sends nothing and leaves the flag false; it
\* fails before the dispatcher is started when the URL is empty or does not
\* parse; for any other URL it fails, with the dispatcher started, when the
\* dispatcher rejects its config, and otherwise returns the gateway for the
\* config it was given.
ConstructionOutcome ==
    lastRet.op = "NewAlertmanager" =>
        /\ wire = <<>>
        /\ ~ready
        /\ IF amCfg.URL = <<>> \/ ParseFails(amCfg.URL)
           THEN /\ lastRet.err \in {"emptyURL", "parseError"}
                /\ lastRet.err = "emptyURL" <=> amCfg.URL = <<>>
                /\ ~Built
                /\ ~senderRunning
                /\ senderCfg = <<>>
           ELSE \/ /\ lastRet.err = "nil"
                   /\ Built
                   /\ am.url = amCfg.URL
                   /\ senderRunning
                \/ /\ lastRet.err = "senderError"
                   /\ ~Built
                   /\ senderRunning

\* C11 witness: the constructor has just refused an empty URL.
EmptyURLRefused ==
    /\ lastRet = Ret("NewAlertmanager", "emptyURL", "nil", FALSE, 0)
    /\ amCfg.URL = <<>>
    /\ amCfg.TenantID = "t1"

\* C12: save-and-apply pushes before it persists and persists only on
\* success: the store is handed the document only by a call whose one POST,
\* to the config URL, was answered 201; a call whose POST failed or was
\* answered with another status returns an error with that status and leaves
\* the persisted configuration as it was.
PushThenPersistOnSuccess ==
    [][lastRet'.op = "SaveAndApplyConfig" =>
         /\ (localCfg' # localCfg \/ lastRet'.err \in {"nil", "storeError"}) =>
                /\ lastRet'.status = StatusCreated
                /\ Len(wire') = 1
                /\ wire'[1].method = "POST"
         /\ lastRet'.status # StatusCreated =>
                /\ localCfg' = localCfg
                /\ lastRet'.err \in {"marshalError", "transportError", "unexpectedStatus"}
                /\ lastRet'.err = "unexpectedStatus" <=> lastRet'.status # 0
         /\ lastRet'.err = "nil" => localCfg' \in Cfgs
      ]_vars

\* C12 witness: a configuration was persisted earlier, and the last push,
\* answered 404, left it in place.
RejectedPushKeepsLocal ==
    /\ lastRet = Ret("SaveAndApplyConfig", "unexpectedStatus", "", FALSE, StatusNotFound)
    /\ localCfg = 1

\* C13: save-and-apply-default never mutates remote state: on every path it
\* issues one GET to the config URL and no other request, and it hands the
\* store a document only when the pull succeeded (a 200), the document
\* pulled.
DefaultNeverPushes ==
    [][lastRet'.op = "SaveAndApplyDefaultConfig" =>
         /\ Len(wire') = 1
         /\ \A i \in 1..Len(wire') :
              wire'[i].method = "GET" /\ wire'[i].url = getConfigURL(am)
         /\ (localCfg' # localCfg \/ lastRet'.err \in {"nil", "storeError"}) =>
                lastRet'.status = StatusOK
         /\ lastRet'.err = "nil" => localCfg' \in 0..MaxCfg
      ]_vars

\* C13 witness: the default was pulled with a GET and persisted.
DefaultPulledAndPersisted ==
    /\ lastRet = Ret("SaveAndApplyDefaultConfig", "nil", "", FALSE, StatusOK)
    /\ localCfg = 0
    /\ Len(wire) = 1
    /\ wire[1].method = "GET"

\* C14: the pull maps the response to its outcome: a 200 to the decoded
\* document, a 404 to the not-found error, any other status to the generic
\* error with that status; whenever the status is not 200 nothing is
\* persisted.
PullStatusMapping ==
    [][lastRet'.op = "SaveAndApplyDefaultConfig" =>
         /\ lastRet'.status = StatusNotFound => lastRet'.err = "configNotFound"
         /\ lastRet'.status \notin {0, StatusOK, StatusNotFound} =>
                lastRet'.err = "unexpectedStatus"
         /\ lastRet'.status = 0 => lastRet'.err = "transportError"
         /\ lastRet'.status = StatusOK =>
                lastRet'.err \in {"nil", "storeError", "decodeError"}
         /\ lastRet'.status # StatusOK =>
                localCfg' = localCfg /\ lastRet'.err \notin {"nil", "storeError"}
      ]_vars

\* C14 witness: a pull answered 404 returned the not-found error and left the
\* configuration persisted earlier in place.
PullNotFound ==
    /\ lastRet = Ret("SaveAndApplyDefaultConfig", "configNotFound", "", FALSE, StatusNotFound)
    /\ localCfg = 1

RequestsSeen ==
    {wire[i] : i \in 1..Len(wire)} \cup
    UNION {{sent[c][i] : i \in 1..Len(sent[c])} : c \in Callers}

\* C16: every outbound request carries the scope header set to the tenant id
\* (also when it is empty); it carries basic auth, with the tenant id and the
\* secret, if and only if both are non-empty; and a call that got an answer
\* from the transport sent its request exactly once.
RequestsDecorated ==
    /\ \A q \in RequestsSeen :
         /\ q.scope = <<am.tenantID>>
         /\ q.auth # <<>> <=> (am.tenantID # "" /\ am.basicAuthPassword # "")
         /\ q.auth # <<>> => q.auth = <<am.tenantID, am.basicAuthPassword>>
    /\ lastRet.status # 0 => Len(wire) = 1
    /\ \A c \in Callers : res[c] # 0 => Len(sent[c]) = 1

\* C16 witness: with an empty tenant id and a secret, a request went out with
\* an empty scope header and without basic auth.
SecretWithoutTenantSendsNoAuth ==
    /\ am.tenantID = ""
    /\ am.basicAuthPassword = "p1"
    /\ Len(wire) = 1
    /\ wire[1].scope = <<"">>
    /\ wire[1].auth = <<>>

\* The URL C17 describes, from the config as it was passed to the
\* constructor: the base URL less one trailing "/alertmanager", then the
\* endpoint path, "/api/v1/alerts" when none was configured.
ConfigURLOfClaim ==
    LET base == amCfg.URL
        stripped == IF base # <<>> /\ base[Len(base)] = "/alertmanager"
                    THEN SubSeq(base, 1, Len(base) - 1)
                    ELSE base
        endpoint == IF amCfg.ConfigEndpoint = <<>> THEN <<"/api/v1/alerts">>
                    ELSE amCfg.ConfigEndpoint
    IN  stripped \o endpoint

\* C17: push and pull target the same URL: every request of
\* SaveAndApplyConfig and of SaveAndApplyDefaultConfig goes to the base URL
\* with one trailing "/alertmanager" removed, followed by the endpoint path.
PushPullSameURL ==
    lastRet.op \in {"SaveAndApplyConfig", "SaveAndApplyDefaultConfig"} =>
        \A i \in 1..Len(wire) : wire[i].url = ConfigURLOfClaim

\* C17 witness: with a base URL ending in two "/alertmanager" and no endpoint
\* configured, the pull went to the base less one suffix plus the default path.
PullURLStripsOneSuffix ==
    /\ lastRet.op = "SaveAndApplyDefaultConfig"
    /\ amCfg.URL = <<"http://am", "/alertmanager", "/alertmanager">>
    /\ amCfg.ConfigEndpoint = <<>>
    /\ wire = <<[method |-> "GET",
                 url |-> <<"http://am", "/alertmanager", "/api/v1/alerts">>,
                 scope |-> <<amCfg.TenantID>>,
                 auth |-> <<>>]>>

\* C18: forward-alerts is fire-and-forget: PutAlerts can be called in every
\* state of the gateway (ready or not, with targets or without, dispatcher
\* running or stopped); it puts the batch into the dispatcher's queue and
\* returns nil having sent no request, and it changes neither the flag, the
\* persisted configuration, the dispatcher's lifecycle nor any invocation
\* of establish-readiness in progress.
PutAlertsFireAndForget ==
    /\ [](Built => ENABLED PutAlerts)
    /\ [][(/\ lastRet'.op = "PutAlerts"
           /\ (lastRet.op # "PutAlerts" \/ (~queued /\ queued'))) =>
              /\ lastRet' = Ret("PutAlerts", "nil", "", FALSE, 0)
              /\ wire' = <<>>
              /\ queued'
              /\ UNCHANGED <<facade, frames, gateway>>
        ]_vars

\* C18 witness: PutAlerts returned nil on a gateway that is not ready and
\* whose dispatcher has no target; the batch is still in the queue.
AlertsQueuedWithoutTarget ==
    /\ lastRet = Ret("PutAlerts", "nil", "", FALSE, 0)
    /\ ~ready
    /\ targets = 0
    /\ queued
    /\ wire = <<>>

NoRetries ==
    /\ [](/\ Len(wire) <= 1
          /\ lastRet.op \in {"SaveAndApplyConfig", "SaveAndApplyDefaultConfig"} =>
                (Len(wire) = 1 <=> lastRet.err # "marshalError")
          /\ lastRet.op = "ApplyConfig" =>
                (Len(wire) = 1 <=> lastRet.val # "noop")
          /\ \A c \in Callers :
                /\ pc[c] \in {"poll", "store"} =>
                      sent[c] = Do(am, Request("GET", readyURL(am)))
                /\ pc[c] \notin {"poll", "store"} => sent[c] = <<>>)
    /\ [][\A c \in Callers : sent'[c] # sent[c] =>
             \/ pc[c] = "probe" /\ sent[c] = <<>>
             \/ pc'[c] = "idle" /\ sent'[c] = <<>>
        ]_vars

\* C20 witness: an invocation that polled until the timeout returned having
\* issued its one probe.
TimedOutAfterOneProbe ==
    /\ lastRet = Ret("ApplyConfig", "notReady", "", FALSE, StatusOK)
    /\ Len(wire) = 1
    /\ wire[1].url = readyURL(am)

\* The last completed operation is an establish-readiness that returned an
\* error, and the flag is false.
ReadinessFailed ==
    /\ lastRet.op = "ApplyConfig"
    /\ lastRet.err # "nil"
    /\ ~ready

MirrorConsistent ==
    (\A c \in Callers : saving[c] = [at |-> "done", err |-> "nil"])
        => localCfg = remoteCfg

\* C23: a failed construction leaves no background actor behind: whenever
\* NewAlertmanager returned an error (empty URL, URL that does not parse,
\* dispatcher rejecting its configuration), no dispatcher started by that
\* call is running.
FailedConstructionStopsSender ==
    (lastRet.op = "NewAlertmanager" /\ lastRet.err # "nil") => ~senderRunning

\* C24: every HTTP response obtained by the readiness probe, the push and
\* the pull has its body closed before the operation returns, on every path,
\* the paths of the non-success statuses included.
ResponseBodiesClosed == resBody # "open"

\* The Run that returned last ran fn under the lock, with unified alerting
\* enabled and the flag of anyOrg false.
UpgradeRan ==
    /\ ran.server # 0
    /\ ran.held
    /\ ran.enabled
    /\ ~ran.before[anyOrg]

\* The events of the Run that returned last.
RanEvents == {ran.log[i] : i \in 1..Len(ran.log)}

\* C25: a Run with unified alerting enabled, the lock acquired and the flag
\* of anyOrg false: when it returns nil the flag of anyOrg and the flag of
\* every org returned by GetAllOrgs are true; an org whose flag was already
\* true is skipped and no org is migrated twice; when a step failed Run
\* returns an error and the flag of anyOrg is not set.
UpgradeMigratesEveryOrgOnce ==
    UpgradeRan =>
       /\ ran.err = "nil" =>
             /\ isMigrated[anyOrg]
             /\ \A o \in Orgs : isMigrated[o]
             /\ \A o \in Orgs :
                   Event("skip", o) \in RanEvents \/ Event("migrate", o) \in RanEvents
       /\ \A o \in Orgs :
             (ran.before[o] /\ Reverted \notin RanEvents)
                => Event("migrate", o) \notin RanEvents
       /\ \A i \in 1..Len(ran.log), j \in 1..Len(ran.log) :
             (i # j /\ ran.log[i].ev = "migrate") => ran.log[j] # ran.log[i]
       /\ Failed \in RanEvents => ran.err # "nil"
       /\ ran.err # "nil" => ~isMigrated[anyOrg]

\* C25 witness: a Run returned nil having skipped an org migrated before and
\* migrated the other; every flag is set.
SkippedOneMigratedOther ==
    /\ UpgradeRan
    /\ ran.err = "nil"
    /\ ran.before[1]
    /\ Len(ran.log) = MaxOrgs
    /\ Event("skip", 1) \in RanEvents
    /\ Event("migrate", MaxOrgs) \in RanEvents
    /\ \A o \in {anyOrg} \cup Orgs : isMigrated[o]

\* C26: a Run with unified alerting disabled is a no-op except for the flag:
\* it sets the flag of anyOrg to false; it never reverts, never migrates and
\* never changes the flag of an org; so the next Run with unified alerting
\* enabled reads a false flag and goes down the migration path again.
DisabledRunOnlyClearsFlag ==
    /\ []((ran.server # 0 /\ ran.held /\ ~ran.enabled) =>
            /\ ran.err = "nil" => ~isMigrated[anyOrg]
            /\ \A o \in Orgs : isMigrated[o] = ran.before[o]
            /\ RanEvents \subseteq {Failed})
    /\ [][\A sv \in Servers :
            (/\ run[sv].pc = "status"
             /\ run[sv].enabled
             /\ ~isMigrated[anyOrg]
             /\ run'[sv].pc # "status")
               => run'[sv].pc \in {"revert", "orgs", "rollback"}
        ]_vars

\* C26 witness: after a completed migration a Run with unified alerting
\* disabled returned nil: the flag of anyOrg is false again while the orgs
\* keep theirs.
DisabledAfterMigration ==
    /\ ran.server # 0
    /\ ran.held
    /\ ~ran.enabled
    /\ ran.err = "nil"
    /\ \A o \in {anyOrg} \cup Orgs : ran.before[o]
    /\ ~isMigrated[anyOrg]
    /\ \A o \in Orgs : isMigrated[o]

\* The Runs whose fn was entered: those under way and the one that returned
\* last, each with its settings, the flags it found and what it did.
RunsEntered ==
    {[enabled |-> run[sv].enabled, clean |-> run[sv].clean,
      before |-> run[sv].before, log |-> run[sv].log] :
        sv \in {x \in Servers : run[x].pc # "idle"}}
    \cup
    (IF ran.server # 0 /\ ran.held
     THEN {[enabled |-> ran.enabled, clean |-> ran.clean,
            before |-> ran.before, log |-> ran.log]}
     ELSE {})

\* C27: the revert safeguard: RevertAllOrgs is called only when unified
\* alerting is enabled, the flag of anyOrg is false and CleanUpgrade is set,
\* and then once and before any org is looked at in that Run; a Run that
\* finds the flag of anyOrg true reverts nothing and migrates nothing, with
\* CleanUpgrade set or not.
RevertOnlyOnCleanUpgrade ==
    \A r \in RunsEntered :
       /\ (\E i \in 1..Len(r.log) : r.log[i] = Reverted) =>
             /\ r.enabled
             /\ r.clean
             /\ ~r.before[anyOrg]
             /\ r.log[1] = Reverted
             /\ \A i \in 2..Len(r.log) : r.log[i] # Reverted
       /\ r.before[anyOrg] =>
             \A i \in 1..Len(r.log) : r.log[i].ev \notin {"revert", "migrate", "skip"}
       /\ (r.enabled /\ r.clean /\ ~r.before[anyOrg] /\ r.log # <<>>) =>
             r.log[1] \in {Reverted, Failed}

\* C27 witness: a Run with CleanUpgrade set found orgs flagged by an earlier
\* migration, reverted first and migrated every org from scratch.
RevertedThenMigrated ==
    /\ ran.server # 0
    /\ ran.held
    /\ ran.enabled
    /\ ran.clean
    /\ ran.err = "nil"
    /\ \A o \in Orgs : ran.before[o]
    /\ ran.log[1] = Reverted
    /\ \A o \in Orgs : Event("migrate", o) \in RanEvents

====
